---- MODULE Spec2Model ----
(***************************************************************************)
(* Model of the chunker / stitcher HTTP service (src/server.js and the     *)
(* index.js versions kept in src/Dockerfile).                              *)
(*                                                                         *)
(* Strings are sequences of tokens, so that startsWith, split and template *)
(* literals are computed as the code computes them.  JavaScript numbers    *)
(* are records [k, n, d]: k = "num" is the rational n/d, k = "nan" is NaN, *)
(* k = "inf" is +Infinity and k = "undef" is undefined.                    *)
(***************************************************************************)
EXTENDS Integers, Sequences, FiniteSets, TLC

\* ------------------------------------------------------------- bounds
NumReqs == 2
MaxTime == 2
MaxChunks == 2
MaxProbeLen == 3
MaxSegs == 1

\* -------------------------------------------------- program constants
DefaultChunkSize == 5
DefaultFps == 30
InlineThreshold == 500

ReqIds == 1..NumReqs

\* ------------------------------------------------------------ strings
StartsWith(s, p) == Len(s) >= Len(p) /\ SubSeq(s, 1, Len(p)) = p

DigitChars == <<"0", "1", "2", "3", "4", "5", "6", "7", "8", "9">>

RECURSIVE Digits(_)
Digits(n) == IF n < 10 THEN <<DigitChars[n + 1]>>
             ELSE Digits(n \div 10) \o <<DigitChars[(n % 10) + 1]>>

Pad3(k) == IF k < 10 THEN <<"0", "0">> \o Digits(k)
           ELSE IF k < 100 THEN <<"0">> \o Digits(k) ELSE Digits(k)

IsDigit(c) == \E i \in 1..10 : DigitChars[i] = c
DigitVal(c) == (CHOOSE i \in 1..10 : DigitChars[i] = c) - 1

IsSpace(c) == c \in {" ", "\n"}

RECURSIVE TrimLeft(_)
TrimLeft(s) == IF s # <<>> /\ IsSpace(Head(s)) THEN TrimLeft(Tail(s)) ELSE s

RECURSIVE TrimRight(_)
TrimRight(s) == IF s # <<>> /\ IsSpace(s[Len(s)])
                THEN TrimRight(SubSeq(s, 1, Len(s) - 1)) ELSE s

Trim(s) == TrimRight(TrimLeft(s))

\* s.split(sep): the pieces between the occurrences of sep, at least one.
RECURSIVE Split(_, _)
Split(s, sep) ==
  IF \E i \in 1..Len(s) : s[i] = sep
  THEN LET i == CHOOSE j \in 1..Len(s) :
                  s[j] = sep /\ \A m \in 1..(j - 1) : s[m] # sep
       IN <<SubSeq(s, 1, i - 1)>> \o Split(SubSeq(s, i + 1, Len(s)), sep)
  ELSE <<s>>

\* ------------------------------------------------------------ numbers
Num(n) == [k |-> "num", n |-> n, d |-> 1]
NaN == [k |-> "nan", n |-> 0, d |-> 1]
Infinity == [k |-> "inf", n |-> 0, d |-> 1]
UndefinedNum == [k |-> "undef", n |-> 0, d |-> 1]

IsNum(x) == x.k = "num"

RECURSIVE DigitsValue(_)
DigitsValue(s) == IF s = <<>> THEN 0
                  ELSE 10 * DigitsValue(SubSeq(s, 1, Len(s) - 1)) + DigitVal(s[Len(s)])

\* Number(str): the empty string is 0, a digit string its value, else NaN.
JsNumber(s) == IF \A i \in 1..Len(Trim(s)) : IsDigit(Trim(s)[i])
               THEN Num(DigitsValue(Trim(s))) ELSE NaN

\* parseFloat(str): the longest numeric prefix, NaN when there is none.
RECURSIVE DigitPrefix(_)
DigitPrefix(s) == IF s # <<>> /\ IsDigit(Head(s))
                  THEN <<Head(s)>> \o DigitPrefix(Tail(s)) ELSE <<>>

ParseFloat(s) == IF DigitPrefix(TrimLeft(s)) = <<>> THEN NaN
                 ELSE Num(DigitsValue(DigitPrefix(TrimLeft(s))))

\* a / b on non-negative operands; undefined converts to NaN.
JsDiv(a, b) ==
  IF a.k \in {"nan", "undef"} \/ b.k \in {"nan", "undef"} THEN NaN
  ELSE IF a.k = "inf" THEN (IF b.k = "inf" THEN NaN ELSE Infinity)
  ELSE IF b.k = "inf" THEN Num(0)
  ELSE IF b.n = 0 THEN (IF a.n = 0 THEN NaN ELSE Infinity)
  ELSE [k |-> "num", n |-> a.n * b.d, d |-> a.d * b.n]

JsMul(a, b) ==
  IF a.k \in {"nan", "undef"} \/ b.k \in {"nan", "undef"} THEN NaN
  ELSE IF a.k = "inf" THEN (IF b.k = "num" /\ b.n = 0 THEN NaN ELSE Infinity)
  ELSE IF b.k = "inf" THEN (IF a.n = 0 THEN NaN ELSE Infinity)
  ELSE [k |-> "num", n |-> a.n * b.n, d |-> a.d * b.d]

MathRound(x) == IF IsNum(x) THEN Num((2 * x.n + x.d) \div (2 * x.d)) ELSE x
MathFloor(x) == IF IsNum(x) THEN Num(x.n \div x.d) ELSE x
MathCeil(x) == IF IsNum(x) THEN Num((x.n + x.d - 1) \div x.d) ELSE x

\* JSON.stringify writes NaN and Infinity as null.
JsonNull == [k |-> "null", n |-> 0, d |-> 1]
JsonNum(x) == IF IsNum(x) THEN x ELSE JsonNull

\* -------------------------------------------------------------- paths
InputPath(ts) == <<"uploads/", "input_">> \o Digits(ts) \o <<".mp4">>
DurationCheckPath(ts) == <<"uploads/", "duration_check_">> \o Digits(ts) \o <<".mp4">>
TempChunkPath(ts, i) ==
  <<"uploads/", "temp_chunk_">> \o Digits(ts) \o <<"_">> \o Digits(i) \o <<".mp4">>
ListFilePath(ts) == <<"uploads/", "filelist_">> \o Digits(ts) \o <<".txt">>
OutputFilePath(ts) == <<"output/", "stitched_">> \o Digits(ts) \o <<".mp4">>
SegmentPath(ts, k) ==
  <<"chunks/", "chunk_">> \o Digits(ts) \o <<"_">> \o Pad3(k) \o <<".mp4">>

\* ------------------------------------------------- request body values
Undefined == <<"<undefined>">>
Url == <<"http", "://cdn/v.mp4">>
DataUri == <<"data:", "video/mp4;base64,", "AAAA">>
LocalA == <<"chunks/", "a.mp4">>
LocalT == <<"uploads/", "temp_chunk_", "keep.mp4">>
LocalMissing == <<"uploads/", "does-not-exist.mp4">>

\* Files the callers put on disk before any request.
CallerFiles == {LocalA, LocalT}

Videos == {Undefined, Url, DataUri, LocalA, LocalMissing}
BodyChunkSizes == {UndefinedNum, Num(0), Num(DefaultChunkSize)}

ChunkRefs == {Url, LocalA, LocalT, LocalMissing}
ChunkArrays == UNION {[1..n -> ChunkRefs] : n \in 0..MaxChunks}
\* body.chunks: absent, a string (not an array), or an array of strings.
BodyChunks == {[k |-> "undef", v |-> <<>>], [k |-> "string", v |-> <<>>]}
              \cup {[k |-> "array", v |-> a] : a \in ChunkArrays}

TokLen(t) == IF t = "AAAA" THEN 4 ELSE 8
RECURSIVE StrLen(_)
StrLen(s) == IF s = <<>> THEN 0 ELSE TokLen(Head(s)) + StrLen(Tail(s))

\* !video
IsFalsy(v) == v = Undefined \/ v = <<>>
\* video.startsWith('http')
IsUrl(v) == StartsWith(v, <<"http">>)
\* video.startsWith('data:') || video.length > 500
IsInline(v) == StartsWith(v, <<"data:">>) \/ StrLen(v) > InlineThreshold

\* ------------------------------------------------------ external tools
ProbeChars == {"3", "0", "/", "x"}
ProbeTexts == UNION {[1..n -> ProbeChars] : n \in 0..MaxProbeLen}
\* What an ffprobe run yields: a non-zero exit, or its standard output.
ProbeOutcomes ==
  {[err |-> TRUE, stdout |-> <<>>]}
  \cup {[err |-> FALSE, stdout |-> IF t = <<>> THEN <<>> ELSE t \o <<"\n">>] :
          t \in ProbeTexts}

getFramerate(out) ==
  IF out.err THEN Num(DefaultFps)
  ELSE LET parts == Split(Trim(out.stdout), "/")
           num == JsNumber(parts[1])
           den == IF Len(parts) >= 2 THEN JsNumber(parts[2]) ELSE UndefinedNum
       IN MathRound(JsDiv(num, den))

FpsResults == {getFramerate(o) : o \in ProbeOutcomes}

\* parseFloat(stdout.trim()) of the duration probe
parseDuration(out) == ParseFloat(Trim(out.stdout))

\* Math.floor(chunkSize * fps)
gopSizeOf(chunkSize, fps) == MathFloor(JsMul(chunkSize, fps))

\* Math.ceil(duration / chunkSize)
expectedChunksOf(duration, chunkSize) == MathCeil(JsDiv(duration, chunkSize))

\* -------------------------------------------------------------- state
VARIABLES
  app,      \* which program runs: "server.js" or "index.js"
  now,      \* Date.now()
  fs,       \* the files on disk: path -> [owner, content]
  req,      \* the requests
  crashed,  \* an exception escaped a callback: the process is gone
  probe     \* input and result of getFramerate when it is run on its own

vars == <<app, now, fs, req, crashed, probe>>

File(owner, content) == [owner |-> owner, content |-> content]

WriteFile(files, path, owner, content) ==
  [p \in (DOMAIN files) \cup {path} |->
     IF p = path THEN File(owner, content) ELSE files[p]]

Unlink(files, path) == [p \in (DOMAIN files) \ {path} |-> files[p]]

Exists(files, path) == path \in DOMAIN files

NoResp == [status |-> 0, error |-> <<>>, fps |-> UndefinedNum,
           gopSize |-> UndefinedNum, duration |-> UndefinedNum,
           expectedChunks |-> UndefinedNum, chunks |-> {}, output |-> <<>>]

IdleReq == [pc |-> "idle", ep |-> "", video |-> Undefined,
            chunkSize |-> UndefinedNum, chunks |-> [k |-> "undef", v |-> <<>>],
            ts |-> 0, inputPath |-> <<>>, shouldCleanup |-> FALSE, i |-> 0,
            downloadedChunks |-> <<>>, duration |-> UndefinedNum,
            fps |-> UndefinedNum, gopSize |-> UndefinedNum, tools |-> {},
            resp |-> NoResp]

NoProbe == [in |-> [err |-> TRUE, stdout |-> <<>>], applied |-> FALSE, out |-> NaN]

\* res.status(s).json({error: e})
Respond(rq, status, error) ==
  [rq EXCEPT !.pc = "done", !.resp = [NoResp EXCEPT !.status = status, !.error = error]]

Init ==
  /\ app \in {"server.js", "index.js"}
  /\ now = 1
  /\ fs = [p \in CallerFiles |-> File(0, <<>>)]
  /\ req = [r \in ReqIds |-> IdleReq]
  /\ crashed = FALSE
  /\ probe = NoProbe

\* The clock advances between events.
Tick ==
  /\ ~crashed
  /\ now < MaxTime
  /\ now' = now + 1
  /\ UNCHANGED <<app, fs, req, crashed, probe>>

\* ------------------------------------------------------ POST /chunk
\* The handler up to its first await.  server.js has no !video test: there
\* video.startsWith throws on undefined and the catch answers 500.
ChecksVideo(a) == a = "index.js"

ChunkBegin(r, video, cs) ==
  LET chunkSize == IF cs = UndefinedNum THEN Num(DefaultChunkSize) ELSE cs
      rq0 == [IdleReq EXCEPT !.ep = "/chunk", !.video = video,
                             !.chunkSize = chunkSize]
      rq1 == [rq0 EXCEPT !.ts = now]
  IN
  IF ChecksVideo(app) /\ IsFalsy(video)
  THEN [rq |-> Respond(rq0, 400, <<"video parameter required (URL or base64)">>),
        fs |-> fs]
  ELSE IF video = Undefined
  THEN [rq |-> Respond(rq1, 500, <<"Cannot read properties of undefined">>),
        fs |-> fs]
  ELSE IF IsUrl(video)
  THEN \* downloadFile: createWriteStream makes the file, then axios is awaited
       [rq |-> [rq1 EXCEPT !.pc = "download", !.inputPath = InputPath(now)],
        fs |-> WriteFile(fs, InputPath(now), r, <<>>)]
  ELSE IF IsInline(video)
  THEN [rq |-> [rq1 EXCEPT !.pc = "fpsProbe", !.inputPath = InputPath(now),
                           !.shouldCleanup = TRUE, !.tools = {"ffprobe"}],
        fs |-> WriteFile(fs, InputPath(now), r, <<>>)]
  ELSE IF Exists(fs, video)
  THEN [rq |-> [rq1 EXCEPT !.pc = "fpsProbe", !.inputPath = video,
                           !.tools = {"ffprobe"}],
        fs |-> fs]
  ELSE [rq |-> Respond(rq1, 400, <<"File not found">>), fs |-> fs]

ChunkStart(r) ==
  /\ ~crashed
  /\ req[r].pc = "idle"
  /\ \E video \in Videos, cs \in BodyChunkSizes :
       LET res == ChunkBegin(r, video, cs)
       IN /\ req' = [req EXCEPT ![r] = res.rq]
          /\ fs' = res.fs
  /\ UNCHANGED <<app, now, crashed, probe>>

\* await downloadFile(video, inputPath) settles.
ChunkDownloaded(rq, ok) ==
  IF ok
  THEN [rq EXCEPT !.pc = "fpsProbe", !.shouldCleanup = TRUE, !.tools = {"ffprobe"}]
  ELSE Respond(rq, 500, <<"download failed">>)

ChunkDownloadDone(r) ==
  /\ ~crashed
  /\ req[r].pc = "download" /\ req[r].ep = "/chunk"
  /\ \E ok \in BOOLEAN : req' = [req EXCEPT ![r] = ChunkDownloaded(req[r], ok)]
  /\ UNCHANGED <<app, now, fs, crashed, probe>>

\* await getFramerate settles; gopSize is computed and ffmpeg is started.
ChunkPlanned(rq, fps) ==
  [rq EXCEPT !.pc = "tool", !.fps = fps,
             !.gopSize = gopSizeOf(rq.chunkSize, fps),
             !.tools = @ \cup {"ffmpeg"}]

ChunkProbeDone(r) ==
  /\ ~crashed
  /\ req[r].pc = "fpsProbe" /\ req[r].ep = "/chunk"
  /\ \E fps \in FpsResults : req' = [req EXCEPT ![r] = ChunkPlanned(req[r], fps)]
  /\ UNCHANGED <<app, now, fs, crashed, probe>>

\* The segment files an ffmpeg run of request r leaves in chunks/.
WriteSegments(files, r, ts, n) ==
  [p \in (DOMAIN files) \cup {SegmentPath(ts, k) : k \in 0..(n - 1)} |->
     IF \E k \in 0..(n - 1) : p = SegmentPath(ts, k) THEN File(r, <<>>)
     ELSE files[p]]

\* fs.readdirSync('chunks').filter(f => f.startsWith(`chunk_${timestamp}`));
\* the sorted array is kept as the set of its elements.
ListChunks(files, ts) ==
  {p \in DOMAIN files :
     /\ Head(p) = "chunks/"
     /\ StartsWith(Tail(p), <<"chunk_">> \o Digits(ts))}

\* ChunkCallback with a fault: the scratch input is removed on the error path only.
ChunkCallbackKeepsInput(rq, files, error) ==
  IF error
  THEN [rq |-> Respond(rq, 500, <<"Chunking failed">>),
        fs |-> IF rq.shouldCleanup /\ Exists(files, rq.inputPath)
               THEN Unlink(files, rq.inputPath) ELSE files]
  ELSE [rq |-> [rq EXCEPT !.pc = "done",
                          !.resp = [NoResp EXCEPT !.status = 200,
                                                  !.chunks = ListChunks(files, rq.ts),
                                                  !.fps = JsonNum(rq.fps),
                                                  !.gopSize = JsonNum(rq.gopSize)]],
        fs |-> files]

\* The exec callback of /chunk.
ChunkCallback(rq, files, error) ==
  LET fs1 == IF rq.shouldCleanup /\ Exists(files, rq.inputPath)
             THEN Unlink(files, rq.inputPath) ELSE files
  IN
  IF error
  THEN [rq |-> Respond(rq, 500, <<"Chunking failed">>), fs |-> fs1]
  ELSE [rq |-> [rq EXCEPT !.pc = "done",
                          !.resp = [NoResp EXCEPT !.status = 200,
                                                  !.chunks = ListChunks(fs1, rq.ts),
                                                  !.fps = JsonNum(rq.fps),
                                                  !.gopSize = JsonNum(rq.gopSize)]],
        fs |-> fs1]

\* ffmpeg exits (it cannot succeed without its input) and the callback runs.
ChunkToolExit(r) ==
  /\ ~crashed
  /\ req[r].pc = "tool" /\ req[r].ep = "/chunk"
  /\ \E ok \in BOOLEAN :
       /\ ok => Exists(fs, req[r].inputPath)
       /\ \E n \in (IF ok THEN 1..MaxSegs ELSE 0..(MaxSegs - 1)) :
            LET res == ChunkCallback(req[r], WriteSegments(fs, r, req[r].ts, n), ~ok)
            IN /\ req' = [req EXCEPT ![r] = res.rq]
               /\ fs' = res.fs
  /\ UNCHANGED <<app, now, crashed, probe>>

\* ----------------------------------------------- POST /get-duration
DurationBegin(r, video, cs) ==
  LET chunkSize == IF cs = UndefinedNum THEN Num(DefaultChunkSize) ELSE cs
      rq0 == [IdleReq EXCEPT !.ep = "/get-duration", !.video = video,
                             !.chunkSize = chunkSize]
      rq1 == [rq0 EXCEPT !.ts = now]
  IN
  IF IsFalsy(video)
  THEN [rq |-> Respond(rq0, 400, <<"video parameter required (URL or path)">>),
        fs |-> fs]
  ELSE IF IsUrl(video)
  THEN [rq |-> [rq1 EXCEPT !.pc = "download", !.inputPath = DurationCheckPath(now)],
        fs |-> WriteFile(fs, DurationCheckPath(now), r, <<>>)]
  ELSE IF Exists(fs, video)
  THEN [rq |-> [rq1 EXCEPT !.pc = "durProbe", !.inputPath = video,
                           !.tools = {"ffprobe"}],
        fs |-> fs]
  ELSE [rq |-> Respond(rq1, 400, <<"File not found">>), fs |-> fs]

DurationStart(r) ==
  /\ ~crashed
  /\ app = "index.js"
  /\ req[r].pc = "idle"
  /\ \E video \in Videos, cs \in BodyChunkSizes :
       LET res == DurationBegin(r, video, cs)
       IN /\ req' = [req EXCEPT ![r] = res.rq]
          /\ fs' = res.fs
  /\ UNCHANGED <<app, now, crashed, probe>>

DurationDownloaded(rq, ok) ==
  IF ok
  THEN [rq EXCEPT !.pc = "durProbe", !.shouldCleanup = TRUE, !.tools = {"ffprobe"}]
  ELSE Respond(rq, 500, <<"download failed">>)

DurationDownloadDone(r) ==
  /\ ~crashed
  /\ req[r].pc = "download" /\ req[r].ep = "/get-duration"
  /\ \E ok \in BOOLEAN : req' = [req EXCEPT ![r] = DurationDownloaded(req[r], ok)]
  /\ UNCHANGED <<app, now, fs, crashed, probe>>

\* await execPromise(durationCmd) settles: a rejection goes to the catch.
DurationProbed(rq, out) ==
  IF out.err
  THEN Respond(rq, 500, <<"Command failed: ffprobe">>)
  ELSE [rq EXCEPT !.pc = "fpsProbe", !.duration = parseDuration(out)]

DurationProbeDone(r) ==
  /\ ~crashed
  /\ req[r].pc = "durProbe" /\ req[r].ep = "/get-duration"
  /\ \E out \in ProbeOutcomes :
       req' = [req EXCEPT ![r] = DurationProbed(req[r], out)]
  /\ UNCHANGED <<app, now, fs, crashed, probe>>

\* await getFramerate settles; the rest of the handler runs to the response.
DurationFinish(rq, files, fps) ==
  [rq |-> [rq EXCEPT !.pc = "done", !.fps = fps,
                     !.resp = [NoResp EXCEPT
                                 !.status = 200,
                                 !.duration = JsonNum(rq.duration),
                                 !.fps = JsonNum(fps),
                                 !.expectedChunks =
                                    JsonNum(expectedChunksOf(rq.duration, rq.chunkSize))]],
   fs |-> IF rq.shouldCleanup /\ Exists(files, rq.inputPath)
          THEN Unlink(files, rq.inputPath) ELSE files]

DurationFpsDone(r) ==
  /\ ~crashed
  /\ req[r].pc = "fpsProbe" /\ req[r].ep = "/get-duration"
  /\ \E fps \in FpsResults :
       LET res == DurationFinish(req[r], fs, fps)
       IN /\ req' = [req EXCEPT ![r] = res.rq]
          /\ fs' = res.fs
  /\ UNCHANGED <<app, now, crashed, probe>>

\* ------------------------------------ POST /stitch, /stitch-base64
RECURSIVE Join(_, _)
Join(lines, sep) ==
  IF lines = <<>> THEN <<>>
  ELSE IF Len(lines) = 1 THEN lines[1]
  ELSE lines[1] \o <<sep>> \o Join(Tail(lines), sep)

\* downloadedChunks.map(c => `file '../${c}'`).join('\n')
ManifestLine(c) == <<"file '../">> \o c \o <<"'">>

\* FileList with a fault: the lines are written last reference first.
FileListReversed(downloaded) ==
  Join([j \in 1..Len(downloaded) |->
          ManifestLine(downloaded[Len(downloaded) + 1 - j])], "\n")

FileList(downloaded) ==
  Join([j \in 1..Len(downloaded) |-> ManifestLine(downloaded[j])], "\n")

\* What the concat tool reads back: the path each non-empty line names,
\* relative to the working directory.
NonEmpty(lines) == SelectSeq(lines, LAMBDA l : l # <<>>)
ManifestEntries(content) ==
  LET ls == NonEmpty(Split(content, "\n"))
  IN [j \in 1..Len(ls) |-> SubSeq(ls[j], 2, Len(ls[j]) - 1)]

\* !chunks || !Array.isArray(chunks) [|| chunks.length === 0, /stitch only]
ChunksRejected(ep, c) ==
  \/ c.k = "undef"
  \/ c.k # "array"
  \/ (ep = "/stitch" /\ Len(c.v) = 0)

\* ResolveFrom with a fault: a local reference that is not on disk is skipped.
RECURSIVE ResolveFromSkipsMissing(_, _, _, _)
ResolveFromSkipsMissing(chunks, i, downloaded, files) ==
  IF i >= Len(chunks) THEN [k |-> "end", i |-> i, downloaded |-> downloaded]
  ELSE IF IsUrl(chunks[i + 1])
  THEN [k |-> "url", i |-> i, downloaded |-> downloaded]
  ELSE IF Exists(files, chunks[i + 1])
  THEN ResolveFromSkipsMissing(chunks, i + 1, Append(downloaded, chunks[i + 1]), files)
  ELSE ResolveFromSkipsMissing(chunks, i + 1, downloaded, files)

\* The for loop from index i (0-based) up to its next await, return or end.
RECURSIVE ResolveFrom(_, _, _, _)
ResolveFrom(chunks, i, downloaded, files) ==
  IF i >= Len(chunks) THEN [k |-> "end", i |-> i, downloaded |-> downloaded]
  ELSE IF IsUrl(chunks[i + 1])
  THEN [k |-> "url", i |-> i, downloaded |-> downloaded]
  ELSE IF Exists(files, chunks[i + 1])
  THEN ResolveFrom(chunks, i + 1, Append(downloaded, chunks[i + 1]), files)
  ELSE [k |-> "missing", i |-> i, downloaded |-> downloaded]

\* The handler from loop index i to its next suspension or response.
StitchContinue(r, rq, files, i, downloaded) ==
  LET res == ResolveFrom(rq.chunks.v, i, downloaded, files)
      rq1 == [rq EXCEPT !.i = res.i, !.downloadedChunks = res.downloaded]
  IN
  IF res.k = "url"
  THEN [rq |-> [rq1 EXCEPT !.pc = "download"],
        fs |-> WriteFile(files, TempChunkPath(rq.ts, res.i), r, <<>>)]
  ELSE IF res.k = "missing"
  THEN [rq |-> Respond(rq1, 400, <<"Chunk not found: ">> \o rq.chunks.v[res.i + 1]),
        fs |-> files]
  ELSE [rq |-> [rq1 EXCEPT !.pc = "tool", !.tools = {"ffmpeg"}],
        fs |-> WriteFile(files, ListFilePath(rq.ts), r, FileList(res.downloaded))]

StitchBegin(r, ep, chunks) ==
  LET rq0 == [IdleReq EXCEPT !.ep = ep, !.chunks = chunks]
  IN
  IF ChunksRejected(ep, chunks)
  THEN [rq |-> Respond(rq0, 400, <<"chunks array required">>), fs |-> fs]
  ELSE StitchContinue(r, [rq0 EXCEPT !.ts = now], fs, 0, <<>>)

StitchStart(r) ==
  /\ ~crashed
  /\ app = "index.js"
  /\ req[r].pc = "idle"
  /\ \E ep \in {"/stitch", "/stitch-base64"}, chunks \in BodyChunks :
       LET res == StitchBegin(r, ep, chunks)
       IN /\ req' = [req EXCEPT ![r] = res.rq]
          /\ fs' = res.fs
  /\ UNCHANGED <<app, now, crashed, probe>>

\* await downloadFile(chunk, tempPath) settles; the loop goes on.
StitchDownloaded(r, rq, files, ok) ==
  IF ok
  THEN StitchContinue(r, rq, files, rq.i + 1,
                      Append(rq.downloadedChunks, TempChunkPath(rq.ts, rq.i)))
  ELSE [rq |-> Respond(rq, 500, <<"download failed">>), fs |-> files]

StitchDownloadDone(r) ==
  /\ ~crashed
  /\ req[r].pc = "download" /\ req[r].ep \in {"/stitch", "/stitch-base64"}
  /\ \E ok \in BOOLEAN :
       LET res == StitchDownloaded(r, req[r], fs, ok)
       IN /\ req' = [req EXCEPT ![r] = res.rq]
          /\ fs' = res.fs
  /\ UNCHANGED <<app, now, crashed, probe>>

\* fs.unlinkSync throws when the file is not there.
RECURSIVE UnlinkTempChunks(_, _)
UnlinkTempChunks(downloaded, files) ==
  IF downloaded = <<>> THEN [threw |-> FALSE, fs |-> files]
  ELSE IF StartsWith(Head(downloaded), <<"uploads/", "temp_chunk_">>)
  THEN IF Exists(files, Head(downloaded))
       THEN UnlinkTempChunks(Tail(downloaded), Unlink(files, Head(downloaded)))
       ELSE [threw |-> TRUE, fs |-> files]
  ELSE UnlinkTempChunks(Tail(downloaded), files)

\* The exec callback of /stitch and /stitch-base64.  An exception here is
\* not caught by the handler's try: it ends the process.
StitchCallback(rq, files, error) ==
  LET listFile == ListFilePath(rq.ts)
      outputFile == OutputFilePath(rq.ts)
      un == UnlinkTempChunks(rq.downloadedChunks, Unlink(files, listFile))
  IN
  IF ~Exists(files, listFile)
  THEN [crash |-> TRUE, rq |-> rq, fs |-> files]
  ELSE IF un.threw
  THEN [crash |-> TRUE, rq |-> rq, fs |-> un.fs]
  ELSE IF error
  THEN [crash |-> FALSE, rq |-> Respond(rq, 500, <<"Stitching failed">>), fs |-> un.fs]
  ELSE IF rq.ep = "/stitch"
  THEN [crash |-> FALSE,
        rq |-> [rq EXCEPT !.pc = "done",
                          !.resp = [NoResp EXCEPT !.status = 200,
                                                  !.output = outputFile]],
        fs |-> un.fs]
  ELSE IF ~Exists(un.fs, outputFile)
  THEN [crash |-> TRUE, rq |-> rq, fs |-> un.fs]
  ELSE [crash |-> FALSE,
        rq |-> [rq EXCEPT !.pc = "done", !.resp = [NoResp EXCEPT !.status = 200]],
        fs |-> Unlink(un.fs, outputFile)]

\* The concat run can succeed only on a manifest that names existing files.
ConcatCanSucceed(files, ts) ==
  /\ Exists(files, ListFilePath(ts))
  /\ LET es == ManifestEntries(files[ListFilePath(ts)].content)
     IN es # <<>> /\ \A j \in 1..Len(es) : Exists(files, es[j])

StitchToolExit(r) ==
  /\ ~crashed
  /\ req[r].pc = "tool" /\ req[r].ep \in {"/stitch", "/stitch-base64"}
  /\ \E ok \in BOOLEAN :
       /\ ok => ConcatCanSucceed(fs, req[r].ts)
       /\ LET fs1 == IF ok THEN WriteFile(fs, OutputFilePath(req[r].ts), r, <<>>)
                     ELSE fs
              res == StitchCallback(req[r], fs1, ~ok)
          IN /\ req' = [req EXCEPT ![r] = res.rq]
             /\ fs' = res.fs
             /\ crashed' = res.crash
  /\ UNCHANGED <<app, now, probe>>

\* ------------------------------------------------------ specification
Next ==
  \/ Tick
  \/ \E r \in ReqIds : ChunkStart(r)
  \/ \E r \in ReqIds : ChunkDownloadDone(r)
  \/ \E r \in ReqIds : ChunkProbeDone(r)
  \/ \E r \in ReqIds : ChunkToolExit(r)
  \/ \E r \in ReqIds : DurationStart(r)
  \/ \E r \in ReqIds : DurationDownloadDone(r)
  \/ \E r \in ReqIds : DurationProbeDone(r)
  \/ \E r \in ReqIds : DurationFpsDone(r)
  \/ \E r \in ReqIds : StitchStart(r)
  \/ \E r \in ReqIds : StitchDownloadDone(r)
  \/ \E r \in ReqIds : StitchToolExit(r)

Spec == Init /\ [][Next]_vars

\* getFramerate on its own: every probe outcome, then the function applied.
InitFramerate ==
  /\ app = "index.js"
  /\ now = 1
  /\ fs = [p \in CallerFiles |-> File(0, <<>>)]
  /\ req = [r \in ReqIds |-> IdleReq]
  /\ crashed = FALSE
  /\ probe \in {[NoProbe EXCEPT !.in = o] : o \in ProbeOutcomes}

ApplyGetFramerate ==
  /\ ~probe.applied
  /\ probe' = [probe EXCEPT !.applied = TRUE, !.out = getFramerate(probe.in)]
  /\ UNCHANGED <<app, now, fs, req, crashed>>

SpecFramerate == InitFramerate /\ [][ApplyGetFramerate]_vars

\* ------------------------------------------------------------- claims
Done(r) == req[r].pc = "done"
Succeeded(r) == Done(r) /\ req[r].resp.status = 200
Failed(r) == Done(r) /\ req[r].resp.status >= 400
StitchEps == {"/stitch", "/stitch-base64"}

\* The files on disk that request r wrote last.
OwnedBy(r) == {p \in DOMAIN fs : fs[p].owner = r}

IsScratch(p) ==
  \/ StartsWith(p, <<"uploads/", "input_">>)
  \/ StartsWith(p, <<"uploads/", "duration_check_">>)
  \/ StartsWith(p, <<"uploads/", "temp_chunk_">>)
  \/ StartsWith(p, <<"uploads/", "filelist_">>)

\* What a successful response declares as its output files.
DeclaredOutputs(r) ==
  IF req[r].ep = "/chunk" THEN req[r].resp.chunks
  ELSE IF req[r].ep = "/stitch" THEN {req[r].resp.output}
  ELSE {}

\* C1: when /chunk, /stitch or /stitch-base64 has answered with success, no
\* scratch file of that request (input, manifest, temp chunk) is on disk;
\* the files it leaves are its declared outputs.
C1_NoScratchAfterSuccess ==
  \A r \in ReqIds :
    (Succeeded(r) /\ req[r].ep \in {"/chunk"} \cup StitchEps)
      => /\ \A p \in OwnedBy(r) : ~IsScratch(p)
         /\ OwnedBy(r) \subseteq DeclaredOutputs(r)

\* A /chunk of a URL and a /stitch with a URL chunk have both succeeded.
C1_Witness ==
  /\ \E r \in ReqIds :
       Succeeded(r) /\ req[r].ep = "/chunk" /\ IsUrl(req[r].video)
  /\ \E r \in ReqIds :
       /\ Succeeded(r) /\ req[r].ep = "/stitch"
       /\ \E j \in 1..Len(req[r].chunks.v) : IsUrl(req[r].chunks.v[j])

\* A reference that is no URL and names a file that is never on disk.
NeverOnDisk(c) == ~IsUrl(c) /\ c \notin CallerFiles
HasMissingRef(r) ==
  /\ req[r].ep = "/stitch" /\ req[r].chunks.k = "array"
  /\ \E j \in 1..Len(req[r].chunks.v) : NeverOnDisk(req[r].chunks.v[j])
FirstMissing(r) ==
  CHOOSE j \in 1..Len(req[r].chunks.v) :
    /\ NeverOnDisk(req[r].chunks.v[j])
    /\ \A m \in 1..(j - 1) : ~NeverOnDisk(req[r].chunks.v[m])
NotFoundError(c) == <<"Chunk not found: ">> \o c
NoStitchEffects(r) ==
  /\ req[r].tools = {}
  /\ req[r].pc # "tool"
  /\ \A p \in OwnedBy(r) :
       ~StartsWith(p, <<"uploads/", "filelist_">>)
       /\ ~StartsWith(p, <<"output/", "stitched_">>)

\* C2 as stated: a /stitch whose chunks hold a missing local reference is
\* answered 400 with an error naming it, runs no tool, writes no manifest
\* and no output.
C2_MissingChunkIs400 ==
  \A r \in ReqIds :
    HasMissingRef(r)
      => /\ NoStitchEffects(r)
         /\ Done(r) =>
              /\ req[r].resp.status = 400
              /\ req[r].resp.error = NotFoundError(req[r].chunks.v[FirstMissing(r)])

\* C2 amended: such a request runs no tool and writes no manifest or output;
\* it ends 400 naming the non-URL reference the loop found missing, which is
\* the first missing one when every reference before it is a file on disk,
\* or 500 when the download of a URL reference before it failed.
C2_MissingChunkEndsRequest ==
  \A r \in ReqIds :
    HasMissingRef(r)
      => LET ch == req[r].chunks.v
             j == FirstMissing(r)
             at == req[r].i + 1
         IN /\ NoStitchEffects(r)
            /\ Done(r) =>
                 /\ req[r].resp.status \in {400, 500}
                 /\ req[r].resp.status = 400 =>
                      /\ at <= j /\ ~IsUrl(ch[at])
                      /\ req[r].resp.error = NotFoundError(ch[at])
                 /\ req[r].resp.status = 500 =>
                      /\ at < j /\ IsUrl(ch[at])
                      /\ req[r].resp.error = <<"download failed">>
                 /\ (\A m \in 1..(j - 1) : Exists(fs, ch[m]))
                      => /\ req[r].resp.status = 400
                         /\ req[r].resp.error = NotFoundError(ch[j])

\* A /stitch got past a downloaded URL chunk and answered 400 at the
\* missing reference behind it.
C2_Witness ==
  \E r \in ReqIds :
    /\ HasMissingRef(r) /\ Done(r)
    /\ req[r].chunks.v = <<Url, LocalMissing>>
    /\ req[r].resp.status = 400
    /\ req[r].resp.error = NotFoundError(LocalMissing)

\* The local file chunks[j] resolves to.
ResolvedPath(r, j) ==
  IF IsUrl(req[r].chunks.v[j]) THEN TempChunkPath(req[r].ts, j - 1)
  ELSE req[r].chunks.v[j]

\* The manifest request r wrote, when it is the last writer of the file.
HasManifest(r) ==
  /\ req[r].ep \in StitchEps /\ req[r].ts > 0
  /\ Exists(fs, ListFilePath(req[r].ts))
  /\ fs[ListFilePath(req[r].ts)].owner = r

IsDigits(s) == s # <<>> /\ \A i \in 1..Len(s) : IsDigit(s[i])
WellFormedRational(s) ==
  LET parts == Split(s, "/")
  IN /\ Len(parts) = 2
     /\ IsDigits(parts[1]) /\ IsDigits(parts[2])
     /\ DigitsValue(parts[2]) # 0
ProbeFailed(out) == out.err \/ ~WellFormedRational(Trim(out.stdout))
IsPositiveInteger(x) == IsNum(x) /\ x.d = 1 /\ x.n > 0

\* C4: getFramerate returns 30 whenever the probe failed (error exit, empty
\* output, output that is no rational, zero denominator), and what it
\* returns is always a positive integer.
C4_FallbackIs30 ==
  probe.applied
    => /\ ProbeFailed(probe.in) => probe.out = Num(DefaultFps)
       /\ IsPositiveInteger(probe.out)

BadChunksBody(r) ==
  /\ req[r].ep \in StitchEps
  /\ (req[r].chunks.k # "array" \/ Len(req[r].chunks.v) = 0)

\* C5: /stitch and /stitch-base64 answer 400, run no tool and write no
\* manifest when chunks is missing, is no array or is empty.
C5_BadChunksRejected ==
  \A r \in ReqIds :
    BadChunksBody(r)
      => /\ Done(r) /\ req[r].resp.status = 400
         /\ req[r].tools = {}
         /\ \A p \in OwnedBy(r) : ~StartsWith(p, <<"uploads/", "filelist_">>)

MissingVideo(r) ==
  /\ req[r].ep \in {"/chunk", "/get-duration"}
  /\ req[r].video \in {Undefined, LocalMissing}

\* C6: /chunk and /get-duration answer 400 when video is absent or is a
\* local path that does not exist; no tool runs and no scratch file is made.
C6_MissingVideoIs400 ==
  \A r \in ReqIds :
    MissingVideo(r)
      => /\ Done(r) /\ req[r].resp.status = 400
         /\ req[r].tools = {}
         /\ \A p \in OwnedBy(r) : ~IsScratch(p)

\* C7: the segmentation tool is started only with a positive integer
\* keyframe interval.
C7_GopSizePositive ==
  \A r \in ReqIds :
    (req[r].ep = "/chunk" /\ "ffmpeg" \in req[r].tools)
      => IsPositiveInteger(req[r].gopSize)

\* C8: a file the caller supplied as a local path is never deleted.
C8_CallerFilesKept ==
  \A p \in CallerFiles : Exists(fs, p) /\ fs[p].owner = 0

\* C9: /get-duration never answers success when the duration probe gave no
\* valid number of seconds.
C9_DurationProbeFatal ==
  \A r \in ReqIds :
    (req[r].ep = "/get-duration" /\ Succeeded(r))
      => IsNum(req[r].duration) /\ IsNum(req[r].resp.duration)

\* C10: a request that ended in an error response has left none of the
\* scratch files it created.
C10_NoScratchAfterError ==
  \A r \in ReqIds :
    Failed(r) => \A p \in OwnedBy(r) : ~IsScratch(p)

InFlight(r) == req[r].pc \notin {"idle", "done"}

\* The scratch files request r has created so far and has not yet removed.
ScratchOf(r) ==
  IF req[r].ep \in {"/chunk", "/get-duration"}
  THEN IF IsUrl(req[r].video) \/ req[r].shouldCleanup THEN {req[r].inputPath} ELSE {}
  ELSE {TempChunkPath(req[r].ts, j - 1) :
          j \in {m \in 1..Len(req[r].chunks.v) :
                   /\ IsUrl(req[r].chunks.v[m])
                   /\ m <= req[r].i + (IF req[r].pc = "download" THEN 1 ELSE 0)}}
       \cup (IF req[r].pc = "tool" THEN {ListFilePath(req[r].ts)} ELSE {})

\* C11: no request overwrites or deletes a file of another request that is
\* still in flight, and the chunks a /chunk response lists are files its
\* own ffmpeg run produced.
C11_NoCrossRequestMutation ==
  \A r \in ReqIds :
    /\ InFlight(r) =>
         \A p \in ScratchOf(r) : Exists(fs, p) /\ fs[p].owner = r
    /\ (Succeeded(r) /\ req[r].ep = "/chunk") =>
         \A p \in req[r].resp.chunks : Exists(fs, p) => fs[p].owner = r

\* Every step by which the handler of request r can move on.
RequestStep(r) ==
  \/ ChunkDownloadDone(r)
  \/ ChunkProbeDone(r)
  \/ ChunkToolExit(r)
  \/ DurationDownloadDone(r)
  \/ DurationProbeDone(r)
  \/ DurationFpsDone(r)
  \/ StitchDownloadDone(r)
  \/ StitchToolExit(r)

Answered(r) == Done(r) /\ req[r].resp.status \in {200, 400, 500}

\* C12: an accepted request is answered exactly once when its downloads
\* and tools terminate; in finite-run form, a request that has been
\* accepted and not yet answered can always take its next step, the
\* process is alive while it waits, and a finished request holds a response.
C12_EveryRequestAnswered ==
  \A r \in ReqIds :
    /\ InFlight(r) => (~crashed /\ ENABLED RequestStep(r))
    /\ Done(r) => Answered(r)

====
